---- MODULE Spec2Model ----
(***************************************************************************)
(* DeviceTokenManager (td/telegram/DeviceTokenManager.cpp): the actor that *)
(* keeps one TokenInfo per push transport in sync with the server.         *)
(*                                                                         *)
(* The actor is single threaded: register_device, dec_sync_cnt (with the   *)
(* loop it runs) and on_result (with the save_info it runs) are each one   *)
(* atomic step.  The binlog key-value store, the net query dispatcher and  *)
(* the promises handed in by callers are the environment.                  *)
(***************************************************************************)
EXTENDS Integers, Sequences, FiniteSets, TLC

(***************************************************************************)
(* Bounds of the model.                                                    *)
(***************************************************************************)
\* number of register_device calls in one behaviour
MaxCalls == 2

(***************************************************************************)
(* int64 values.  TLC's integers are 32 bit, the key ids of the program    *)
(* are 64 bit and the band that matters is at 10^13: a value v is kept as  *)
(* two limbs, v = hi * 10^7 + lo with 0 <= lo < 10^7.                      *)
(***************************************************************************)
Limb == 10 * 1000000

I64(h, l) == [hi |-> h, lo |-> l]

Zero64 == I64(0, 0)

Neg64(a) == IF a.lo = 0 THEN I64(-a.hi, 0) ELSE I64(-a.hi - 1, Limb - a.lo)

Le64(a, b) == a.hi < b.hi \/ (a.hi = b.hi /\ a.lo <= b.lo)

Lt64(a, b) == a.hi < b.hi \/ (a.hi = b.hi /\ a.lo < b.lo)

\* static_cast<int64>(10000000000000ll) = 10^6 * 10^7
MIN_ENCRYPTION_KEY_ID == I64(1000000, 0)

\* G()->get_my_id(): the identifier of the local account
MyId == I64(0, 777)

(***************************************************************************)
(* Transports.  The switch of register_device maps a td_api::DeviceToken   *)
(* to (token_type, token, is_app_sandbox, encrypt): is_app_sandbox is read *)
(* for APNS and APNS_VOIP only, encrypt for FCM and APNS_VOIP only.        *)
(***************************************************************************)
APNS == 1
FCM == 2

\* TokenType::SIZE: the loops run over 1 <= token_type < SIZE
SIZE == FCM + 1

TokenTypes == 1..(SIZE - 1)

HasSandboxFlag(token_type) == token_type = APNS

HasEncryptFlag(token_type) == token_type = FCM

(***************************************************************************)
(* Inputs of register_device.                                              *)
(***************************************************************************)
\* a token that is not valid UTF-8
BadUtf8 == "\\xff"

TokenInputs == {"", "a", BadUtf8}

\* clean_input_string(token): false for a string that is not UTF-8
clean_input_string(token) == token # BadUtf8

\* UserId::is_valid
is_valid(user_id) == user_id > 0

MAX_OTHER_USER_IDS == 1

UserIdInputs == {0, 5}

RECURSIVE SeqsUpTo(_, _)
SeqsUpTo(S, n) ==
    IF n = 0 THEN {<<>>}
    ELSE LET shorter == SeqsUpTo(S, n - 1)
         IN  shorter \cup {Append(s, x) : s \in {t \in shorter : Len(t) = n - 1}, x \in S}

OtherUserIdsInputs == SeqsUpTo(UserIdInputs, MAX_OTHER_USER_IDS + 1)

(***************************************************************************)
(* Encryption keys.  Random::secure_bytes draws 256 bytes and              *)
(* DhHandshake::calc_key_id derives an int64 from them; a key is modelled  *)
(* by its index in the table of the ids it derives to.  The table holds    *)
(* both edges of the band, their inner neighbours and the account id.      *)
(***************************************************************************)
EmptyKey == 0

KeyIdTable ==
    << I64(0, 777),                                 \* equal to the account id
       I64(999999, 9999999),                        \* MIN - 1
       MIN_ENCRYPTION_KEY_ID,                       \* MIN
       Neg64(MIN_ENCRYPTION_KEY_ID),                \* -MIN
       I64(-1000000, 1) >>                          \* -MIN + 1

RandomKeys == 1..Len(KeyIdTable)

calc_key_id(key) == KeyIdTable[key]

\* the while (true) loop left at the first draw
KeyIdAcceptedAlways(id) == TRUE

\* the exit test of the while (true) loop of register_device
KeyIdAccepted(id) ==
    Le64(id, Neg64(MIN_ENCRYPTION_KEY_ID)) \/ Le64(MIN_ENCRYPTION_KEY_ID, id)

(***************************************************************************)
(* TokenInfo.  net_query_id 0 is "no query in flight"; promise 0 is the    *)
(* empty Promise, any other value names the promise of one call.           *)
(***************************************************************************)
Sync == "Sync"
Unregister == "Unregister"
Register == "Register"

States == {Sync, Unregister, Register}

TokenInfo ==
    [state |-> Sync, token |-> "", other_user_ids |-> <<>>, is_app_sandbox |-> FALSE,
     encrypt |-> FALSE, encryption_key |-> EmptyKey, encryption_key_id |-> Zero64,
     net_query_id |-> 0, promise |-> 0]

(***************************************************************************)
(* What a promise is resolved with.                                        *)
(***************************************************************************)
\* td_api::pushReceiverId(id)
Value(id) == [ok |-> TRUE, id |-> id, code |-> 0, message |-> ""]

\* td_api::pushReceiverId(): the neutral result
NeutralValue == Value(Zero64)

Error(code, message) == [ok |-> FALSE, id |-> Zero64, code |-> code, message |-> message]

\* the error of a failed net query
ServerError == Error(500, "server error")

FalseResultError == Error(5, "Got false as result of server request")

\* r_flag of on_result: ok(true), ok(false) or an error
Results == {"true", "false", "error"}

VARIABLES
    started,            \* the actor runs: start_up was called, the process not stopped
    tokens_,            \* tokens_[token_type]: the TokenInfo of a transport
    sync_cnt_,          \* force_sync calls whose callback has not run
    binlog_pmc,         \* the key-value store as get() sees it
    force_sync_queue,   \* store contents at each unacknowledged force_sync
    synced_pmc,         \* store contents known durable
    net_queries,        \* queries dispatched whose callback has not run
    next_net_query_id,  \* id the net query creator gives the next query
    promises,           \* promises[p]: the results promise p was given
    next_promise,       \* the promise of the next register_device call
    superseded,         \* history: ids of queries dispatched before the last
                        \* register_device call on their transport
    rejected,           \* history: transports whose last matching response
                        \* rejected a registration, no query sent since
    sent                \* history: sent[token_type]: queries dispatched for a
                        \* transport since the last register_device call on it

vars == <<started, tokens_, sync_cnt_, binlog_pmc, force_sync_queue, synced_pmc, net_queries,
          next_net_query_id, promises, next_promise,
          superseded, rejected, sent>>

(***************************************************************************)
(* TokenInfo::store behind the '*' marker of save_info: the flags, the     *)
(* token, other_user_ids only when not empty, the key and its id only when *)
(* encrypt is set.                                                         *)
(***************************************************************************)
StoreFlags(info) ==
    (IF info.other_user_ids # <<>> THEN {"has_other_user_ids"} ELSE {})
    \cup (IF info.state = Sync THEN {"is_sync"} ELSE {})
    \cup (IF info.state = Unregister THEN {"is_unregister"} ELSE {})
    \cup (IF info.state = Register THEN {"is_register"} ELSE {})
    \cup (IF info.is_app_sandbox THEN {"is_app_sandbox"} ELSE {})
    \cup (IF info.encrypt THEN {"encrypt"} ELSE {})

Store(info) ==
    <<StoreFlags(info), info.token>>
    \o (IF info.other_user_ids # <<>> THEN <<info.other_user_ids>> ELSE <<>>)
    \o (IF info.encrypt THEN <<info.encryption_key, info.encryption_key_id>> ELSE <<>>)

\* get() of a key that has no entry returns the empty string
NoEntry == <<>>

\* the entry written in the legacy format: state marker and token only
SavedEntryLegacy(info) ==
    IF info.token = "" THEN NoEntry
    ELSE << (IF info.state = Register THEN "+"
             ELSE IF info.state = Unregister THEN "-" ELSE "="), info.token >>

\* the entry save_info leaves under the key of a transport
SavedEntry(info) == IF info.token = "" THEN NoEntry ELSE <<"*">> \o Store(info)

\* save_info(token_type), run on the records toks: set or erase, sync_cnt_++, force_sync
save_info(toks, token_type) ==
    /\ binlog_pmc' = [binlog_pmc EXCEPT ![token_type] = SavedEntry(toks[token_type])]
    /\ sync_cnt_' = sync_cnt_ + 1
    /\ force_sync_queue' = Append(force_sync_queue, binlog_pmc')

(***************************************************************************)
(* loop()                                                                  *)
(***************************************************************************)
\* loop() without its first test
LoopNeverSuspended(cnt) == FALSE

\* if (sync_cnt_ != 0) return;
LoopSuspended(cnt) == cnt # 0

\* the loop without `if (info.net_query_id != 0) continue;`
HaveToSendQueryIgnoringInFlight(info) == info.state # Sync

\* the two `continue`s of the loop: a query is sent for info unless it is
\* synchronized or has a query in flight
HaveToSendQuery(info) == info.state # Sync /\ info.net_query_id = 0

\* account_unregisterDevice(token_type, token, other_user_ids) or
\* account_registerDevice(token_type, token, is_app_sandbox, secret, other_user_ids);
\* the fields an unregister query does not carry are left at their defaults
CreateQuery(id, token_type, info) ==
    IF info.state = Unregister
    THEN [id |-> id, token_type |-> token_type, method |-> "account_unregisterDevice",
          token |-> info.token, is_app_sandbox |-> FALSE, secret |-> EmptyKey,
          other_user_ids |-> info.other_user_ids]
    ELSE [id |-> id, token_type |-> token_type, method |-> "account_registerDevice",
          token |-> info.token, is_app_sandbox |-> info.is_app_sandbox,
          secret |-> info.encryption_key, other_user_ids |-> info.other_user_ids]

\* one pass of the for loop, from token_type on; acc is the records, the id
\* of the next query and the queries handed to the dispatcher so far
RECURSIVE LoopFrom(_, _)
LoopFrom(token_type, acc) ==
    IF token_type >= SIZE THEN acc
    ELSE LET info == acc.tokens[token_type]
         IN  IF HaveToSendQuery(info)
             THEN LoopFrom(token_type + 1,
                      [tokens |-> [acc.tokens EXCEPT ![token_type].net_query_id = acc.next_id],
                       next_id |-> acc.next_id + 1,
                       queries |-> acc.queries \cup {CreateQuery(acc.next_id, token_type, info)}])
             ELSE LoopFrom(token_type + 1, acc)

loop(cnt, toks, next_id) ==
    IF LoopSuspended(cnt)
    THEN [tokens |-> toks, next_id |-> next_id, queries |-> {}]
    ELSE LoopFrom(1, [tokens |-> toks, next_id |-> next_id, queries |-> {}])

(***************************************************************************)
(* Promises                                                                *)
(***************************************************************************)
\* promise.set_value / set_error; on the empty Promise it does nothing
SetResult(proms, promise, result) ==
    IF promise = 0 THEN proms ELSE [proms EXCEPT ![promise] = Append(@, result)]

(***************************************************************************)
(* register_device                                                         *)
(***************************************************************************)
\* the checks without the one on the number of other_user_ids
ValidationErrorWithoutSizeCheck(token, other_user_ids) ==
    IF ~clean_input_string(token)
    THEN <<Error(400, "Device token must be encoded in UTF-8")>>
    ELSE IF \E i \in 1..Len(other_user_ids) : ~is_valid(other_user_ids[i])
    THEN <<Error(400, "Invalid user_id among other user_ids")>>
    ELSE <<>>

\* the checks before any record is touched: <<>> when all pass, else the error
ValidationError(token, other_user_ids) ==
    IF ~clean_input_string(token)
    THEN <<Error(400, "Device token must be encoded in UTF-8")>>
    ELSE IF \E i \in 1..Len(other_user_ids) : ~is_valid(other_user_ids[i])
    THEN <<Error(400, "Invalid user_id among other user_ids")>>
    ELSE IF Len(other_user_ids) > MAX_OTHER_USER_IDS
    THEN <<Error(400, "Too much other user_ids")>>
    ELSE <<>>

\* register_device without the early return
AlreadyUnregisteredNever(info, token) == FALSE

\* if (token.empty()) { if (info.token.empty()) return promise.set_value(...); ... }
AlreadyUnregistered(info, token) == token = "" /\ info.token = ""

\* encrypt switched off with the key and its id left in the record
WithEncryptionKeepingKey(info, encrypt, key) ==
    IF encrypt # info.encrypt
    THEN IF encrypt
         THEN [info EXCEPT !.encryption_key = key, !.encryption_key_id = calc_key_id(key),
                           !.encrypt = TRUE]
         ELSE [info EXCEPT !.encrypt = FALSE]
    ELSE info

\* if (encrypt != info.encrypt) { ... }: key is the draw that ends the while loop
WithEncryption(info, encrypt, key) ==
    IF encrypt # info.encrypt
    THEN IF encrypt
         THEN [info EXCEPT !.encryption_key = key, !.encryption_key_id = calc_key_id(key),
                           !.encrypt = TRUE]
         ELSE [info EXCEPT !.encryption_key = EmptyKey, !.encryption_key_id = Zero64,
                           !.encrypt = FALSE]
    ELSE info

\* the record after a call that leaves net_query_id as it is
RegisteredKeepingQuery(info, token, is_app_sandbox, encrypt, other_user_ids, key, promise) ==
    LET stated == IF token = ""
                  THEN [info EXCEPT !.state = Unregister]
                  ELSE [info EXCEPT !.state = Register, !.token = token]
        filled == [stated EXCEPT !.other_user_ids = other_user_ids,
                                 !.is_app_sandbox = is_app_sandbox]
    IN  [WithEncryption(filled, encrypt, key) EXCEPT !.promise = promise]

\* the record after the call, from net_query_id = 0 to the move of the promise
Registered(info, token, is_app_sandbox, encrypt, other_user_ids, key, promise) ==
    LET cleared == [info EXCEPT !.net_query_id = 0]
        stated == IF token = ""
                  THEN [cleared EXCEPT !.state = Unregister]
                  ELSE [cleared EXCEPT !.state = Register, !.token = token]
        filled == [stated EXCEPT !.other_user_ids = other_user_ids,
                                 !.is_app_sandbox = is_app_sandbox]
    IN  [WithEncryption(filled, encrypt, key) EXCEPT !.promise = promise]

\* the earlier promise failed instead of given the neutral result
SupersedePromiseWithError(proms, info) ==
    SetResult(proms, info.promise, Error(400, "Superseded"))

\* the earlier promise overwritten by the new one, no result given
SupersedePromiseDropped(proms, info) == proms

\* info.promise.set_value(pushReceiverId()): what the call does to the promise
\* the record held before it
SupersedePromise(proms, info) == SetResult(proms, info.promise, NeutralValue)

RegisterDevice(token_type, token, is_app_sandbox, encrypt, other_user_ids, key) ==
    /\ started
    /\ next_promise <= MaxCalls
    /\ next_promise' = next_promise + 1
    /\ sent' = [sent EXCEPT ![token_type] = 0]
    /\ LET promise == next_promise
           info == tokens_[token_type]
           error == ValidationError(token, other_user_ids)
       IN  IF error # <<>>
           THEN /\ promises' = SetResult(promises, promise, error[1])
                /\ UNCHANGED <<tokens_, sync_cnt_, binlog_pmc, force_sync_queue, superseded,
                               rejected>>
           ELSE IF AlreadyUnregistered(info, token)
           THEN /\ tokens_' = [tokens_ EXCEPT ![token_type].net_query_id = 0]
                /\ promises' = SetResult(promises, promise, NeutralValue)
                /\ superseded' = superseded
                       \cup {q.id : q \in {n \in net_queries : n.token_type = token_type}}
                /\ UNCHANGED <<sync_cnt_, binlog_pmc, force_sync_queue, rejected>>
           ELSE /\ (encrypt # info.encrypt /\ encrypt) => KeyIdAccepted(calc_key_id(key))
                /\ tokens_' = [tokens_ EXCEPT ![token_type] =
                       Registered(info, token, is_app_sandbox, encrypt, other_user_ids,
                                  key, promise)]
                /\ promises' = SupersedePromise(promises, info)
                /\ save_info(tokens_', token_type)
                /\ superseded' = superseded
                       \cup {q.id : q \in {n \in net_queries : n.token_type = token_type}}
                /\ rejected' = rejected \ {token_type}
    /\ UNCHANGED <<started, synced_pmc, net_queries, next_net_query_id>>

(***************************************************************************)
(* dec_sync_cnt: the callback of one force_sync, then loop()               *)
(***************************************************************************)
\* sent, with the queries a pass of loop() dispatched counted in
SentWith(count, queries) ==
    [token_type \in TokenTypes |->
        count[token_type] + Cardinality({q \in queries : q.token_type = token_type})]

DecSyncCnt ==
    /\ started
    /\ force_sync_queue # <<>>
    /\ synced_pmc' = Head(force_sync_queue)
    /\ force_sync_queue' = Tail(force_sync_queue)
    /\ sync_cnt_' = sync_cnt_ - 1
    /\ LET after == loop(sync_cnt_', tokens_, next_net_query_id)
       IN  /\ tokens_' = after.tokens
           /\ next_net_query_id' = after.next_id
           /\ net_queries' = net_queries \cup after.queries
           /\ rejected' = rejected \ {q.token_type : q \in after.queries}
           /\ sent' = SentWith(sent, after.queries)
    /\ UNCHANGED <<started, binlog_pmc, promises, next_promise, superseded>>

(***************************************************************************)
(* on_result: the dispatcher runs the callback of query with r_flag        *)
(***************************************************************************)
\* on_result without the comparison of the ids
IsStaleNever(info, query) == FALSE

\* if (info.net_query_id != net_query->id()) { net_query->clear(); return; }
IsStale(info, query) == info.net_query_id # query.id

\* push_token_id taken from the account whatever encrypt is
PushTokenIdIgnoringEncrypt(info) == IF info.state = Register THEN MyId ELSE Zero64

\* push_token_id of the success branch
PushTokenId(info) ==
    IF info.state = Register
    THEN IF info.encrypt THEN info.encryption_key_id ELSE MyId
    ELSE Zero64

\* what info.promise is given
ResultForPromise(info, r_flag) ==
    IF r_flag = "true" THEN Value(PushTokenId(info))
    ELSE IF r_flag = "error" THEN ServerError
    ELSE FalseResultError

\* a failed unregistration left in state Unregister, to be sent again
AnsweredRetryingUnregister(info, r_flag) ==
    LET cleared == [info EXCEPT !.net_query_id = 0, !.promise = 0]
    IN  IF r_flag = "true"
        THEN [cleared EXCEPT !.token = IF info.state = Unregister THEN "" ELSE @,
                             !.state = Sync]
        ELSE [cleared EXCEPT !.state = Unregister]

\* a rejected registration left in state Register
AnsweredRetryingRegister(info, r_flag) ==
    LET cleared == [info EXCEPT !.net_query_id = 0, !.promise = 0]
    IN  IF r_flag = "true"
        THEN [cleared EXCEPT !.token = IF info.state = Unregister THEN "" ELSE @,
                             !.state = Sync]
        ELSE IF info.state = Register
        THEN cleared
        ELSE [cleared EXCEPT !.state = Sync, !.token = ""]

\* the record after a response that matches
Answered(info, r_flag) ==
    LET cleared == [info EXCEPT !.net_query_id = 0, !.promise = 0]
    IN  IF r_flag = "true"
        THEN [cleared EXCEPT !.token = IF info.state = Unregister THEN "" ELSE @,
                             !.state = Sync]
        ELSE IF info.state = Register
        THEN [cleared EXCEPT !.state = Unregister]
        ELSE [cleared EXCEPT !.state = Sync, !.token = ""]

OnResult(query, r_flag) ==
    /\ started
    /\ query \in net_queries
    /\ net_queries' = net_queries \ {query}
    /\ superseded' = superseded \ {query.id}
    /\ LET token_type == query.token_type
           info == tokens_[token_type]
       IN  IF IsStale(info, query)
           THEN UNCHANGED <<tokens_, sync_cnt_, binlog_pmc, force_sync_queue, promises,
                            rejected>>
           ELSE /\ tokens_' = [tokens_ EXCEPT ![token_type] = Answered(info, r_flag)]
                /\ promises' = SetResult(promises, info.promise, ResultForPromise(info, r_flag))
                /\ save_info(tokens_', token_type)
                /\ rejected' = IF r_flag # "true" /\ info.state = Register
                               THEN rejected \cup {token_type}
                               ELSE rejected \ {token_type}
    /\ UNCHANGED <<started, synced_pmc, next_net_query_id, next_promise, sent>>

(***************************************************************************)
(* get_encryption_keys                                                     *)
(***************************************************************************)
\* an unregistering transport counted as well
ContributesWhileUnregistering(info) == info.token # ""

\* if (!info.token.empty() && info.state != TokenInfo::State::Unregister)
Contributes(info) == info.token # "" /\ info.state # Unregister

\* the for loop from token_type on, result being what was emplaced so far
RECURSIVE EncryptionKeysFrom(_, _)
EncryptionKeysFrom(token_type, result) ==
    IF token_type >= SIZE THEN result
    ELSE LET info == tokens_[token_type]
         IN  IF Contributes(info)
             THEN IF info.encrypt
                  THEN EncryptionKeysFrom(token_type + 1,
                           Append(result, <<info.encryption_key_id, info.encryption_key>>))
                  ELSE EncryptionKeysFrom(token_type + 1, Append(result, <<MyId, EmptyKey>>))
             ELSE EncryptionKeysFrom(token_type + 1, result)

get_encryption_keys == EncryptionKeysFrom(1, <<>>)

(***************************************************************************)
(* start_up.  An entry of the store is the sequence of what was written:   *)
(* the marker byte first, then for '*' the fields of TokenInfo::store, for *)
(* a legacy entry the token.                                               *)
(***************************************************************************)
HasFlag(flags, flag) == flag \in flags

\* the number of fields parse fetches after flags that read as `flags`
FieldsToFetch(flags) ==
    2 + (IF HasFlag(flags, "has_other_user_ids") THEN 1 ELSE 0)
      + (IF HasFlag(flags, "encrypt") THEN 2 ELSE 0)

\* TokenInfo::parse into a default TokenInfo, for fields that hold what the
\* flags announce (CHECK(is_sync + is_unregister + is_register == 1) passed)
parse(fields) ==
    LET flags == fields[1]
        has_other_user_ids == HasFlag(flags, "has_other_user_ids")
        encrypt == HasFlag(flags, "encrypt")
        key_at == IF has_other_user_ids THEN 4 ELSE 3
    IN  [TokenInfo EXCEPT
            !.state = IF HasFlag(flags, "is_sync") THEN Sync
                      ELSE IF HasFlag(flags, "is_unregister") THEN Unregister
                      ELSE Register,
            !.token = fields[2],
            !.other_user_ids = IF has_other_user_ids THEN fields[3] ELSE @,
            !.is_app_sandbox = HasFlag(flags, "is_app_sandbox"),
            !.encrypt = encrypt,
            !.encryption_key = IF encrypt THEN fields[key_at] ELSE @,
            !.encryption_key_id = IF encrypt THEN fields[key_at + 1] ELSE @]

\* unserialize(token, serialized.substr(1)): an error when the data ends
\* before parse is done or is not used up by it; <<>> on error, else the record
unserialize(fields) ==
    IF Len(fields) < 2 THEN <<>>
    ELSE IF Len(fields) # FieldsToFetch(fields[1]) THEN <<>>
    ELSE <<parse(fields)>>

\* '+' and '-' read the other way round
LegacyStateSwapped(c) ==
    IF c = "-" THEN <<Register>>
    ELSE IF c = "+" THEN <<Unregister>>
    ELSE IF c = "=" THEN <<Sync>>
    ELSE <<>>

\* the state a legacy marker byte stands for, <<>> for any other byte
LegacyState(c) ==
    IF c = "+" THEN <<Register>>
    ELSE IF c = "-" THEN <<Unregister>>
    ELSE IF c = "=" THEN <<Sync>>
    ELSE <<>>

\* the body of the for loop of start_up: the record of a transport after it
LoadEntry(serialized) ==
    IF Len(serialized) = 0 THEN TokenInfo
    ELSE IF serialized[1] = "*"
    THEN LET parsed == unserialize(Tail(serialized))
         IN  IF parsed = <<>> THEN TokenInfo ELSE parsed[1]
    ELSE LET state == LegacyState(serialized[1])
         IN  IF state = <<>> THEN TokenInfo
             ELSE [TokenInfo EXCEPT !.state = state[1], !.token = serialized[2]]

\* start_up that returns after the last entry, loop() not called
start_up_without_loop(store, next_id) ==
    [tokens |-> [token_type \in TokenTypes |-> LoadEntry(store[token_type])],
     next_id |-> next_id, queries |-> {}]

\* start_up on a store: every entry loaded, then loop() once
start_up(store, next_id) ==
    loop(0, [token_type \in TokenTypes |-> LoadEntry(store[token_type])], next_id)

\* the actor starts: its records are constructed, then start_up runs
StartUp ==
    /\ ~started
    /\ started' = TRUE
    /\ sync_cnt_' = 0
    /\ LET after == start_up(binlog_pmc, 1)
       IN  /\ tokens_' = after.tokens
           /\ next_net_query_id' = after.next_id
           /\ net_queries' = after.queries
           /\ sent' = SentWith([token_type \in TokenTypes |-> 0], after.queries)
    /\ superseded' = {}
    /\ rejected' = {}
    /\ UNCHANGED <<binlog_pmc, force_sync_queue, synced_pmc, promises, next_promise>>

\* the process stops.  The store keeps the writes up to some force_sync, at
\* least those acknowledged; the callbacks of the store and of the dispatcher
\* are dropped with the actor.  tokens_ and sync_cnt_ are left as the dead
\* process had them: nothing reads them before StartUp sets them anew.
Stop ==
    /\ started
    /\ started' = FALSE
    /\ \E synced \in 0..Len(force_sync_queue) :
           /\ binlog_pmc' = IF synced = 0 THEN synced_pmc ELSE force_sync_queue[synced]
           /\ synced_pmc' = binlog_pmc'
    /\ force_sync_queue' = <<>>
    /\ net_queries' = {}
    /\ superseded' = {}
    /\ UNCHANGED <<tokens_, sync_cnt_, next_net_query_id, promises, next_promise, rejected,
                   sent>>

(***************************************************************************)
(* The state after construction and start_up on an empty store.            *)
(***************************************************************************)
Init ==
    /\ started = TRUE
    /\ tokens_ = [token_type \in TokenTypes |-> TokenInfo]
    /\ sync_cnt_ = 0
    /\ binlog_pmc = [token_type \in TokenTypes |-> NoEntry]
    /\ force_sync_queue = <<>>
    /\ synced_pmc = [token_type \in TokenTypes |-> NoEntry]
    /\ net_queries = {}
    /\ next_net_query_id = 1
    /\ promises = [promise \in 1..MaxCalls |-> <<>>]
    /\ next_promise = 1
    /\ superseded = {}
    /\ rejected = {}
    /\ sent = [token_type \in TokenTypes |-> 0]

\* the arguments the switch of register_device can produce for a transport:
\* is_app_sandbox and encrypt stay false where the token variant has no such
\* field, and a key is drawn only when the call turns encryption on
SandboxInputs(token_type) == IF HasSandboxFlag(token_type) THEN BOOLEAN ELSE {FALSE}

EncryptInputs(token_type) == IF HasEncryptFlag(token_type) THEN BOOLEAN ELSE {FALSE}

KeyInputs(token_type, encrypt) ==
    IF encrypt /\ ~tokens_[token_type].encrypt THEN RandomKeys ELSE {EmptyKey}

Call ==
    \E token_type \in TokenTypes :
        \E token \in TokenInputs, is_app_sandbox \in SandboxInputs(token_type),
           encrypt \in EncryptInputs(token_type), other_user_ids \in OtherUserIdsInputs :
            \E key \in KeyInputs(token_type, encrypt) :
                RegisterDevice(token_type, token, is_app_sandbox, encrypt, other_user_ids, key)

Respond == \E query \in net_queries, r_flag \in Results : OnResult(query, r_flag)

Next == Call \/ DecSyncCnt \/ Respond

Spec == Init /\ [][Next]_vars

(***************************************************************************)
(* The store runs the callback of every force_sync and the dispatcher the  *)
(* callback of every query it was given.                                   *)
(***************************************************************************)
SpecFair == Spec /\ WF_vars(DecSyncCnt) /\ WF_vars(Respond)

(***************************************************************************)
(* The process stopped and started again, any number of times.             *)
(***************************************************************************)
NextRestart == Next \/ Stop \/ StartUp

SpecRestart == Init /\ [][NextRestart]_vars

(***************************************************************************)
(* A first start on a store that earlier runs, of this version or of one   *)
(* that wrote the legacy format, have left, or that is damaged.            *)
(***************************************************************************)
\* records as handed to save_info
StoredInfos ==
    << [TokenInfo EXCEPT !.state = Register, !.token = "a", !.is_app_sandbox = TRUE],
       [TokenInfo EXCEPT !.state = Unregister, !.token = "a", !.other_user_ids = <<5>>],
       [TokenInfo EXCEPT !.state = Sync, !.token = "a", !.encrypt = TRUE,
                         !.encryption_key = 3, !.encryption_key_id = calc_key_id(3)] >>

StoredEntries ==
    << NoEntry,
       <<"+", "a">>, <<"-", "a">>, <<"=", "a">>, <<"+", "">>,   \* legacy
       <<"?", "a">>,                                            \* no known marker
       SavedEntry(StoredInfos[1]), SavedEntry(StoredInfos[2]), SavedEntry(StoredInfos[3]),
       <<"*", {"is_register", "encrypt"}, "a">>,                \* cut before the key
       <<"*", {"is_sync"}, "a", <<5>>>> >>                      \* data left over

InitStore ==
    /\ started = FALSE
    /\ tokens_ = [token_type \in TokenTypes |-> TokenInfo]
    /\ sync_cnt_ = 0
    /\ \E entry \in [TokenTypes -> 1..Len(StoredEntries)] :
           binlog_pmc = [token_type \in TokenTypes |-> StoredEntries[entry[token_type]]]
    /\ synced_pmc = binlog_pmc
    /\ force_sync_queue = <<>>
    /\ net_queries = {}
    /\ next_net_query_id = 1
    /\ promises = [promise \in 1..MaxCalls |-> <<>>]
    /\ next_promise = 1
    /\ superseded = {}
    /\ rejected = {}
    /\ sent = [token_type \in TokenTypes |-> 0]

NextStartUp == StartUp \/ DecSyncCnt \/ Respond

SpecStartUp == InitStore /\ [][NextStartUp]_vars

(***************************************************************************)
(* Properties.                                                             *)
(***************************************************************************)
\* the queries of a transport the dispatcher still holds
QueriesOf(token_type) == {q \in net_queries : q.token_type = token_type}

\* the queries a step hands to the dispatcher
Dispatched == net_queries' \ net_queries

\* the inputs that pass the checks of register_device
InputsValid(token, other_user_ids) ==
    /\ token # BadUtf8
    /\ Len(other_user_ids) <= MAX_OTHER_USER_IDS
    /\ \A i \in 1..Len(other_user_ids) : other_user_ids[i] > 0

\* a step that is register_device(token_type, token, ..., other_user_ids, promise)
CallStep(token_type, token, other_user_ids) ==
    /\ next_promise' # next_promise
    /\ \E is_app_sandbox \in SandboxInputs(token_type), encrypt \in EncryptInputs(token_type) :
           \E key \in KeyInputs(token_type, encrypt) :
               RegisterDevice(token_type, token, is_app_sandbox, encrypt, other_user_ids, key)

\* a step that is on_result(query) with r_flag
ResponseStep(query, r_flag) ==
    /\ query \notin net_queries'
    /\ OnResult(query, r_flag)

\* C1 as stated: for every transport at most one dispatched query awaits its
\* callback.
C1_AtMostOneOutstanding ==
    \A token_type \in TokenTypes : Cardinality(QueriesOf(token_type)) <= 1

\* C1, amended: for every transport at most one query dispatched since the
\* last register_device call that passed validation on that transport awaits
\* its callback, and it is the query the record names in net_query_id; queries
\* dispatched before that call may still be outstanding beside it.
C1_AtMostOneLiveQuery ==
    \A token_type \in TokenTypes :
        LET live == {q \in QueriesOf(token_type) : q.id \notin superseded}
        IN  /\ Cardinality(live) <= 1
            /\ \A q \in live : tokens_[token_type].net_query_id = q.id

\* a transport with a superseded query and a live one outstanding together
C1_Witness ==
    \E token_type \in TokenTypes :
        \E q1 \in QueriesOf(token_type), q2 \in QueriesOf(token_type) :
            /\ q1.id \in superseded
            /\ q2.id \notin superseded
            /\ tokens_[token_type].net_query_id = q2.id

\* C2: a step dispatches queries only when, at the dispatch, sync_cnt_ is zero
\* and no force_sync awaits its callback.
C2_NoDispatchBeforeSync ==
    [][Dispatched # {} => (sync_cnt_' = 0 /\ force_sync_queue' = <<>>)]_vars

\* loop() has run with a write unacknowledged and sent nothing: one force_sync
\* was acknowledged, another is not, and a record waits for its query
C2_Witness ==
    /\ sync_cnt_ > 0
    /\ \E token_type \in TokenTypes : synced_pmc[token_type] # NoEntry
    /\ \E token_type \in TokenTypes :
           /\ tokens_[token_type].state # Sync
           /\ tokens_[token_type].net_query_id = 0
           /\ QueriesOf(token_type) = {}

\* C3: a register_device call that passes validation and is not the
\* empty-on-empty case, on a transport whose record holds a promise, gives that
\* promise the neutral value and leaves the new promise in the record, unresolved.
C3_Superseding ==
    [][\A token_type \in TokenTypes, token \in TokenInputs,
          other_user_ids \in OtherUserIdsInputs :
            ( /\ tokens_[token_type].promise # 0
              /\ InputsValid(token, other_user_ids)
              /\ ~(token = "" /\ tokens_[token_type].token = "")
              /\ CallStep(token_type, token, other_user_ids) )
            => /\ promises[tokens_[token_type].promise] = <<>>
               /\ promises'[tokens_[token_type].promise] = <<NeutralValue>>
               /\ tokens_'[token_type].promise = next_promise
               /\ promises'[next_promise] = <<>>]_vars

\* two calls on one transport, the query of the first still unanswered: the
\* first promise has the neutral value, the second is pending in the record
C3_Witness ==
    \E token_type \in TokenTypes :
        /\ next_promise = 3
        /\ tokens_[token_type].promise = 2
        /\ promises[1] = <<NeutralValue>>
        /\ promises[2] = <<>>
        /\ \E q \in QueriesOf(token_type) : q.id \in superseded

\* C4: the callback of a query whose id is not the net_query_id of its record
\* changes no record, resolves no promise, writes nothing and sends nothing.
C4_StaleDiscarded ==
    [][\A query \in net_queries, r_flag \in Results :
            ( /\ tokens_[query.token_type].net_query_id # query.id
              /\ ResponseStep(query, r_flag) )
            => /\ UNCHANGED <<tokens_, promises, sync_cnt_, binlog_pmc, force_sync_queue>>
               /\ net_queries' = net_queries \ {query}]_vars

\* the response to the first query has come after a second call cleared
\* net_query_id: the second promise is still pending and its write unacknowledged
C4_Witness ==
    \E token_type \in TokenTypes :
        /\ next_net_query_id = 2
        /\ net_queries = {}
        /\ tokens_[token_type].net_query_id = 0
        /\ tokens_[token_type].promise = 2
        /\ promises[1] = <<NeutralValue>>
        /\ promises[2] = <<>>
        /\ sync_cnt_ = 1

\* C5: the matching response that fails a query sent in state Register leaves
\* the record in state Unregister with its token kept and no query in flight,
\* and the next query sent for that transport, with no register_device call
\* between, is an unregister query for that token.
C5_RejectedRegistrationUnregisters ==
    [][/\ \A query \in net_queries, r_flag \in {"false", "error"} :
            ( /\ tokens_[query.token_type].net_query_id = query.id
              /\ tokens_[query.token_type].state = Register
              /\ ResponseStep(query, r_flag) )
            => /\ tokens_'[query.token_type].state = Unregister
               /\ tokens_'[query.token_type].token = tokens_[query.token_type].token
               /\ tokens_'[query.token_type].token # ""
               /\ tokens_'[query.token_type].net_query_id = 0
               /\ query.token_type \in rejected'
       /\ \A query \in Dispatched :
            query.token_type \in rejected
            => /\ query.method = "account_unregisterDevice"
               /\ query.token = tokens_[query.token_type].token]_vars

\* one call made, its registration rejected, and the unregister query that
\* follows is in flight
C5_Witness ==
    \E token_type \in TokenTypes :
        /\ next_promise = 2
        /\ promises[1] # <<>>
        /\ ~promises[1][1].ok
        /\ tokens_[token_type].state = Unregister
        /\ \E q \in QueriesOf(token_type) :
               /\ q.method = "account_unregisterDevice"
               /\ q.id = tokens_[token_type].net_query_id
               /\ q.token = "a"

\* C6: the matching response with a true result leaves the record in state
\* Sync with no query in flight, clears the token exactly when the state was
\* Unregister, and gives a promise the record holds the value 0 if the state was
\* Unregister, else encryption_key_id if encrypt is set, else the account id.
C6_SuccessSynchronizes ==
    [][\A query \in net_queries :
            ( /\ tokens_[query.token_type].net_query_id = query.id
              /\ ResponseStep(query, "true") )
            => LET before == tokens_[query.token_type]
                   after == tokens_'[query.token_type]
                   expected == IF before.state = Unregister THEN Zero64
                               ELSE IF before.encrypt THEN before.encryption_key_id
                               ELSE MyId
               IN  /\ after.state = Sync
                   /\ after.net_query_id = 0
                   /\ (after.token = "") <=> (before.state = Unregister)
                   /\ before.state # Unregister => after.token = before.token
                   /\ before.promise # 0 =>
                          /\ promises[before.promise] = <<>>
                          /\ promises'[before.promise] = <<Value(expected)>>]_vars

\* an encrypted registration has succeeded and its promise holds the key id
C6_Witness ==
    \E token_type \in TokenTypes, promise \in 1..MaxCalls :
        /\ tokens_[token_type].state = Sync
        /\ tokens_[token_type].token # ""
        /\ tokens_[token_type].encrypt
        /\ tokens_[token_type].encryption_key_id # Zero64
        /\ promises[promise] = <<Value(tokens_[token_type].encryption_key_id)>>

C8_InvalidOtherUserIdsRejected ==
    [][\A token_type \in TokenTypes, token \in TokenInputs,
          other_user_ids \in OtherUserIdsInputs :
            ( /\ \/ Len(other_user_ids) > MAX_OTHER_USER_IDS
                 \/ \E i \in 1..Len(other_user_ids) : other_user_ids[i] <= 0
              /\ CallStep(token_type, token, other_user_ids) )
            => /\ \E error \in {promises'[next_promise][1]} :
                      /\ ~error.ok
                      /\ error.code = 400
                      /\ promises' = [promises EXCEPT ![next_promise] = <<error>>]
               /\ UNCHANGED <<tokens_, sync_cnt_, binlog_pmc, force_sync_queue, synced_pmc,
                              net_queries, next_net_query_id>>]_vars

\* a call with too many other_user_ids has failed while the record of an
\* earlier call keeps its promise pending and its query in flight
C8_Witness ==
    \E token_type \in TokenTypes :
        /\ promises[2] = <<Error(400, "Too much other user_ids")>>
        /\ tokens_[token_type].promise = 1
        /\ promises[1] = <<>>
        /\ tokens_[token_type].net_query_id # 0

\* the id lies outside the closed band [-MIN, MIN]
StrictlyOutsideBand(id) ==
    Lt64(id, Neg64(MIN_ENCRYPTION_KEY_ID)) \/ Lt64(MIN_ENCRYPTION_KEY_ID, id)

\* the id lies outside the open band (-MIN, MIN)
OutsideOpenBand(id) ==
    ~(Lt64(Neg64(MIN_ENCRYPTION_KEY_ID), id) /\ Lt64(id, MIN_ENCRYPTION_KEY_ID))

\* C9 as stated: a call that turns encrypt on stores a key id strictly outside
\* the closed band [-10^13, 10^13].
C9_KeyIdOutsideClosedBand ==
    [][\A token_type \in TokenTypes :
            (~tokens_[token_type].encrypt /\ tokens_'[token_type].encrypt)
            => StrictlyOutsideBand(tokens_'[token_type].encryption_key_id)]_vars

\* C9, amended: a call that turns encrypt on stores the id derived from the
\* key it stores, and that id is at most -10^13 or at least 10^13: the edges
\* -10^13 and 10^13 themselves are accepted, only ids strictly between them
\* are redrawn.
C9_KeyIdOutsideOpenBand ==
    [][\A token_type \in TokenTypes :
            (~tokens_[token_type].encrypt /\ tokens_'[token_type].encrypt)
            => /\ OutsideOpenBand(tokens_'[token_type].encryption_key_id)
               /\ tokens_'[token_type].encryption_key \in RandomKeys
               /\ tokens_'[token_type].encryption_key_id
                      = calc_key_id(tokens_'[token_type].encryption_key)]_vars

\* encryption was turned on and the id stored is the edge 10^13 itself
C9_Witness ==
    \E token_type \in TokenTypes :
        /\ tokens_[token_type].encrypt
        /\ tokens_[token_type].encryption_key_id = I64(1000000, 0)

\* the entry get_encryption_keys holds for a record
KeyEntry(info) ==
    IF info.encrypt THEN <<info.encryption_key_id, info.encryption_key>>
    ELSE <<MyId, EmptyKey>>

\* C10: get_encryption_keys returns, in the order of the transports, one entry
\* for each transport whose token is not empty and whose state is not
\* Unregister - (encryption_key_id, encryption_key) if encrypt is set, else
\* (account id, empty) - and nothing else.
C10_EncryptionKeys ==
    LET listed == {token_type \in TokenTypes :
                       /\ tokens_[token_type].token # ""
                       /\ tokens_[token_type].state # Unregister}
        rank(token_type) == Cardinality({t \in listed : t <= token_type})
    IN  /\ Len(get_encryption_keys) = Cardinality(listed)
        /\ \A token_type \in listed :
               get_encryption_keys[rank(token_type)] = KeyEntry(tokens_[token_type])

\* an encrypted transport is listed while the other one, its registration
\* rejected, has a token and is not
C10_Witness ==
    \E listed \in TokenTypes, unlisted \in TokenTypes :
        /\ tokens_[listed].encrypt
        /\ tokens_[listed].state = Register
        /\ unlisted \in rejected
        /\ tokens_[unlisted].token # ""
        /\ Len(get_encryption_keys) = 1

\* the first byte of a store entry that is not empty
Marker(entry) == entry[1]

\* C11: start_up decodes a legacy entry by its first byte - "+<token>" to
\* Register with <token>, "-<token>" to Unregister, "=<token>" to Sync - and
\* leaves the record of an entry with any first byte other than '*', '+', '-',
\* '=' empty (Sync, empty token), whatever the entries of the other transports.
C11_LegacyDecoding ==
    [][StartUp =>
        \A token_type \in TokenTypes :
            LET entry == binlog_pmc[token_type]
                info == tokens_'[token_type]
            IN  Len(entry) > 0 =>
                  /\ Marker(entry) = "+" => (info.state = Register /\ info.token = entry[2])
                  /\ Marker(entry) = "-" => (info.state = Unregister /\ info.token = entry[2])
                  /\ Marker(entry) = "=" => (info.state = Sync /\ info.token = entry[2])
                  /\ Marker(entry) \notin {"*", "+", "-", "="}
                         => (info.state = Sync /\ info.token = "")]_vars

\* started on a store whose first entry has no known marker and whose second
\* is a legacy "-a": the first record is empty, the second unregisters "a"
C11_Witness ==
    /\ started
    /\ Len(binlog_pmc[APNS]) > 0 /\ Marker(binlog_pmc[APNS]) = "?"
    /\ Len(binlog_pmc[FCM]) > 0 /\ Marker(binlog_pmc[FCM]) = "-"
    /\ tokens_[APNS].state = Sync /\ tokens_[APNS].token = ""
    /\ tokens_[FCM].state = Unregister /\ tokens_[FCM].token = "a"

\* a record without what is not persisted: net_query_id and promise
Persisted(info) == [info EXCEPT !.net_query_id = 0, !.promise = 0]

\* the record of a transport as start_up loaded it and loop() left it has the
\* persisted fields of `info` and no promise, and was loaded with no net_query_id
LoadedAs(token_type, info) ==
    /\ LoadEntry(binlog_pmc[token_type]) = Persisted(info)
    /\ Persisted(tokens_'[token_type]) = Persisted(info)
    /\ tokens_'[token_type].promise = 0

\* C12 as stated: when the process stopped with no write unacknowledged, the
\* start that follows loads for every transport a record with the state,
\* token, other_user_ids, is_app_sandbox, encrypt, encryption_key and
\* encryption_key_id that the record in memory had at the stop, with no
\* net_query_id and no promise.
C12_RecordSurvivesRestart ==
    [][(StartUp /\ sync_cnt_ = 0) =>
        \A token_type \in TokenTypes : LoadedAs(token_type, tokens_[token_type])]_vars

\* C12, amended: that holds for every transport whose record in memory had a
\* token; a record whose token was empty has no entry in the store and is
\* loaded as the default record, whatever its other fields held.
C12_RecordWithTokenSurvivesRestart ==
    [][(StartUp /\ sync_cnt_ = 0) =>
        \A token_type \in TokenTypes :
            IF tokens_[token_type].token # ""
            THEN LoadedAs(token_type, tokens_[token_type])
            ELSE /\ binlog_pmc[token_type] = NoEntry
                 /\ LoadedAs(token_type, TokenInfo)]_vars

\* stopped with no write unacknowledged, start_up about to run: the record of
\* one transport, encrypted and with its registration in flight at the stop,
\* is loaded as it was but for net_query_id and promise
C12_Witness ==
    /\ ~started
    /\ sync_cnt_ = 0
    /\ tokens_[FCM].state = Register /\ tokens_[FCM].token = "a"
    /\ tokens_[FCM].encrypt
    /\ tokens_[FCM].net_query_id # 0 /\ tokens_[FCM].promise # 0
    /\ LoadEntry(binlog_pmc[FCM]) = Persisted(tokens_[FCM])
    /\ start_up(binlog_pmc, 1).tokens[FCM].net_query_id = 1

\* the error a promise is given for a response that is not ok(true)
FailureOf(r_flag) == IF r_flag = "error" THEN ServerError ELSE FalseResultError

\* C13: the matching response that fails a query sent in state Unregister
\* leaves the record in state Sync with an empty token, gives the promise of
\* the record, if it holds one, the error of the response or the error for a
\* false result, and erases the entry of the transport in the store; and for a
\* transport in state Sync no query is dispatched, and its record leaves state
\* Sync only in a register_device call.
C13_FailedUnregistrationGivesUp ==
    [][/\ \A query \in net_queries, r_flag \in {"false", "error"} :
            LET token_type == query.token_type
                promise == tokens_[token_type].promise
            IN  ( /\ tokens_[token_type].net_query_id = query.id
                  /\ tokens_[token_type].state = Unregister
                  /\ ResponseStep(query, r_flag) )
                => /\ tokens_'[token_type].state = Sync
                   /\ tokens_'[token_type].token = ""
                   /\ tokens_'[token_type].net_query_id = 0
                   /\ tokens_'[token_type].promise = 0
                   /\ promise # 0 => /\ promises[promise] = <<>>
                                     /\ promises'[promise] = <<FailureOf(r_flag)>>
                   /\ binlog_pmc'[token_type] = NoEntry
       /\ \A token_type \in TokenTypes :
            tokens_[token_type].state = Sync
            => /\ \A query \in Dispatched : query.token_type # token_type
               /\ tokens_'[token_type].state # Sync => next_promise' # next_promise]_vars

\* a token was registered, the call to unregister it was answered with a
\* failure and its promise has that error; the record is given up as Sync with
\* no token and no entry, and the write of that was acknowledged, loop()
\* sending nothing
C13_Witness ==
    /\ next_promise = 3
    /\ promises[1] # <<>> /\ promises[1][1].ok
    /\ promises[2] \in {<<ServerError>>, <<FalseResultError>>}
    /\ \A token_type \in TokenTypes :
           /\ tokens_[token_type].state = Sync
           /\ tokens_[token_type].token = ""
           /\ binlog_pmc[token_type] = NoEntry
    /\ sync_cnt_ = 0
    /\ net_queries = {}
    /\ rejected = {}

\* every transport is in state Sync, names no query, and none is outstanding
Converged ==
    /\ \A token_type \in TokenTypes :
           /\ tokens_[token_type].state = Sync
           /\ tokens_[token_type].net_query_id = 0
    /\ net_queries = {}

\* C14: when every force_sync and every query gets its callback, then, the
\* calls of register_device having ceased, every transport comes to state Sync
\* with no query in flight and stays so; and since the last register_device
\* call on a transport at most two queries were dispatched for it, the second
\* only after the first, a registration, was rejected, and it an unregister.
C14_Convergence ==
    /\ <>[]Converged
    /\ [](\A token_type \in TokenTypes : sent[token_type] <= 2)
    /\ [][\A query \in Dispatched :
             sent[query.token_type] # 0
             => /\ query.token_type \in rejected
                /\ query.method = "account_unregisterDevice"]_vars

\* converged after both calls: one transport took two queries, its
\* registration rejected and then unregistered, the other one
C14_Witness ==
    /\ Converged
    /\ sync_cnt_ = 0
    /\ next_promise > MaxCalls
    /\ \E twice \in TokenTypes, once \in TokenTypes :
           /\ sent[twice] = 2
           /\ sent[once] = 1

\* the state for which loop() builds a query with the method of `query`
StateOf(query) ==
    IF query.method = "account_unregisterDevice" THEN Unregister ELSE Register

\* C15: when loop() dispatches a query for a transport, the entry of that
\* transport in the store as acknowledged decodes to a record with the token
\* of the query and the state of its method: Register for a register query,
\* Unregister for an unregister query.
C15_StoreNotBehindQuery ==
    [][\A query \in Dispatched :
          LET durable == LoadEntry(synced_pmc'[query.token_type])
          IN  /\ durable.token = query.token
              /\ durable.state = StateOf(query)]_vars

\* both calls were on one transport, the second after the first was written
\* and sent: the query of the second is out, beside the first, and the store
\* as acknowledged holds what the second asked for
C15_Witness ==
    \E token_type \in TokenTypes :
        /\ next_promise > MaxCalls
        /\ Cardinality(QueriesOf(token_type)) = 2
        /\ \E query \in QueriesOf(token_type) :
               /\ query.id = tokens_[token_type].net_query_id
               /\ query.method = "account_unregisterDevice"
               /\ LoadEntry(synced_pmc[token_type]).state = Unregister
               /\ LoadEntry(synced_pmc[token_type]).token = query.token

\* encrypt, encryption_key and encryption_key_id of a record
KeyMaterial(info) == <<info.encrypt, info.encryption_key, info.encryption_key_id>>

\* a step that is register_device(token_type, ..., encrypt, ...)
CallStepWithEncrypt(token_type, encrypt) ==
    /\ next_promise' # next_promise
    /\ \E token \in TokenInputs, is_app_sandbox \in SandboxInputs(token_type),
          other_user_ids \in OtherUserIdsInputs :
           \E key \in KeyInputs(token_type, encrypt) :
               RegisterDevice(token_type, token, is_app_sandbox, encrypt, other_user_ids, key)

\* C16: encrypt, encryption_key and encryption_key_id of a record change only
\* in a register_device call on its transport whose encrypt differs from the
\* record's: to true with a drawn key and the id of that key, to false with
\* the key empty and the id zero; a call with the encrypt of the record, a
\* pass of loop() and a response, stale or not, leave the three as they are.
C16_KeyMaterialChangesOnToggleOnly ==
    [][\A token_type \in TokenTypes :
          LET info == tokens_[token_type]
              after == tokens_'[token_type]
          IN  /\ KeyMaterial(after) # KeyMaterial(info)
                   => /\ CallStepWithEncrypt(token_type, ~info.encrypt)
                      /\ after.encrypt = ~info.encrypt
                      /\ IF after.encrypt
                         THEN /\ after.encryption_key \in RandomKeys
                              /\ after.encryption_key # EmptyKey
                              /\ after.encryption_key_id = calc_key_id(after.encryption_key)
                         ELSE /\ after.encryption_key = EmptyKey
                              /\ after.encryption_key_id = Zero64
              /\ CallStepWithEncrypt(token_type, info.encrypt)
                   => KeyMaterial(after) = KeyMaterial(info)
              /\ next_promise' = next_promise
                   => KeyMaterial(after) = KeyMaterial(info)]_vars

\* encryption was switched on by the first call; the second call, again with
\* encrypt, superseded it and was answered: the key of the first is still there
C16_Witness ==
    /\ next_promise = 3
    /\ promises[1] = <<NeutralValue>>
    /\ promises[2] # <<>>
    /\ tokens_[FCM].state = Sync
    /\ tokens_[FCM].encrypt
    /\ tokens_[FCM].encryption_key # EmptyKey
    /\ promises[2][1].ok /\ promises[2][1].id = tokens_[FCM].encryption_key_id

\* C17: when start_up returns, every transport whose entry was loaded as
\* Register or Unregister has exactly one query at the dispatcher, the one its
\* record names, of the method of that state and with the loaded token, and
\* every transport loaded as Sync, or whose entry is absent, has none.
C17_StartUpResumes ==
    [][StartUp =>
        \A token_type \in TokenTypes :
            LET loaded == LoadEntry(binlog_pmc[token_type])
                queries == {q \in net_queries' : q.token_type = token_type}
            IN  IF loaded.state = Sync
                THEN /\ queries = {}
                     /\ tokens_'[token_type].net_query_id = 0
                ELSE /\ Cardinality(queries) = 1
                     /\ \A query \in queries :
                            /\ StateOf(query) = loaded.state
                            /\ query.token = loaded.token
                            /\ query.id = tokens_'[token_type].net_query_id]_vars

\* started on a store with a tagged Register entry for the first transport
\* and a legacy "-a" for the second: a register and an unregister query are out
C17_Witness ==
    /\ started
    /\ LoadEntry(binlog_pmc[APNS]) = StoredInfos[1]
    /\ Len(binlog_pmc[FCM]) > 0 /\ Marker(binlog_pmc[FCM]) = "-"
    /\ Cardinality(net_queries) = 2
    /\ \E query \in QueriesOf(APNS) :
           query.method = "account_registerDevice" /\ query.is_app_sandbox
    /\ \E query \in QueriesOf(FCM) :
           query.method = "account_unregisterDevice" /\ query.token = "a"

\* the query the record of a transport names is at the dispatcher and has the
\* method of the record's state, its token and its other_user_ids
BuiltFromRecord(token_type) ==
    \E query \in QueriesOf(token_type) :
        /\ query.id = tokens_[token_type].net_query_id
        /\ StateOf(query) = tokens_[token_type].state
        /\ query.token = tokens_[token_type].token
        /\ query.other_user_ids = tokens_[token_type].other_user_ids

\* C18: whenever the net_query_id of a record is set, the query of that id is
\* at the dispatcher and the state, token and other_user_ids of the record are
\* those the query carries; as long as the record names that query its state,
\* token, other_user_ids and promise do not change; and a step that is not a
\* register_device call gives a promise a result only as on_result of the
\* query the record holding that promise names.
C18_PromiseAnsweredByItsQuery ==
    /\ [](\A token_type \in TokenTypes :
             tokens_[token_type].net_query_id # 0 => BuiltFromRecord(token_type))
    /\ [][/\ \A token_type \in TokenTypes :
               ( /\ tokens_[token_type].net_query_id # 0
                 /\ tokens_'[token_type].net_query_id = tokens_[token_type].net_query_id )
               => tokens_'[token_type] = tokens_[token_type]
          /\ \A promise \in 1..MaxCalls :
               ( /\ next_promise' = next_promise
                 /\ promises'[promise] # promises[promise] )
               => \E query \in net_queries \ net_queries' :
                      /\ tokens_[query.token_type].net_query_id = query.id
                      /\ tokens_[query.token_type].promise = promise
                      /\ query.id \notin superseded]_vars

\* the promise of the second call was answered by the query built for it,
\* an unregister, while the register query of the first call, superseded,
\* is still at the dispatcher
C18_Witness ==
    \E token_type \in TokenTypes :
        /\ promises[1] = <<NeutralValue>>
        /\ promises[2] = <<Value(Zero64)>> \/ promises[2] = <<ServerError>>
        /\ tokens_[token_type].net_query_id = 0
        /\ tokens_[token_type].state = Sync
        /\ tokens_[token_type].token = ""
        /\ \E query \in QueriesOf(token_type) :
               /\ query.id \in superseded
               /\ query.method = "account_registerDevice"

\* the promises register_device has been passed so far
Passed == 1..(next_promise - 1)

\* the step gives `promise` its result in the register_device call it was
\* passed to: a validation error, or the neutral value with the record kept
GivenInItsCall(promise) ==
    /\ promise = next_promise
    /\ next_promise' # next_promise
    /\ \A token_type \in TokenTypes : tokens_'[token_type].promise # promise
    /\ \/ promises'[promise] = <<NeutralValue>>
       \/ /\ ~promises'[promise][1].ok
          /\ promises'[promise][1].code = 400

\* the step is a later register_device call on the transport whose record
\* holds `promise`, and gives it the neutral value
GivenByLaterCall(promise) ==
    /\ promise < next_promise
    /\ next_promise' # next_promise
    /\ promises'[promise] = <<NeutralValue>>
    /\ \E token_type \in TokenTypes :
           /\ tokens_[token_type].promise = promise
           /\ tokens_'[token_type].promise = next_promise

\* the step is on_result of the query sent for the record that holds `promise`
GivenByResponse(promise) ==
    /\ next_promise' = next_promise
    /\ \E query \in net_queries \ net_queries' :
           /\ tokens_[query.token_type].promise = promise
           /\ tokens_[query.token_type].net_query_id = query.id
           /\ \E r_flag \in Results :
                  promises'[promise] = <<ResultForPromise(tokens_[query.token_type], r_flag)>>

\* C19: no promise is given a result twice; when every force_sync and every
\* query gets its callback, every promise passed to register_device is given
\* one; and it is given in the call itself (validation error, or empty on
\* empty), or by a later call on the same transport with the neutral value, or
\* by the response to the query sent for its record.
C19_PromiseResolvedOnce ==
    /\ [](\A promise \in 1..MaxCalls : Len(promises[promise]) <= 1)
    /\ \A promise \in 1..MaxCalls : (promise \in Passed) ~> (promises[promise] # <<>>)
    /\ [][\A promise \in 1..MaxCalls :
             promises'[promise] # promises[promise]
             => \/ GivenInItsCall(promise)
                \/ GivenByLaterCall(promise)
                \/ GivenByResponse(promise)]_vars

\* all calls made and all callbacks run: the first promise was given the
\* neutral value by the second call, on the same transport, and the second
\* the error of the response to its query
C19_Witness ==
    /\ next_promise > MaxCalls
    /\ net_queries = {}
    /\ sync_cnt_ = 0
    /\ promises[1] = <<NeutralValue>>
    /\ promises[2] = <<FalseResultError>>
    /\ Converged

\* C20: started on an empty store, a record in state Sync names no query and
\* holds no promise, and a record with an empty token is in state Sync.
C20_SyncedRecordIsIdle ==
    \A token_type \in TokenTypes :
        LET info == tokens_[token_type]
        IN  /\ info.state = Sync => (info.net_query_id = 0 /\ info.promise = 0)
            /\ info.token = "" => info.state = Sync

\* a record back in state Sync with its token after a registration that
\* succeeded, a query of the call before it still at the dispatcher, and the
\* other record, never registered, with no token
C20_Witness ==
    \E synced \in TokenTypes, empty \in TokenTypes :
        /\ tokens_[synced].state = Sync
        /\ tokens_[synced].token = "a"
        /\ QueriesOf(synced) # {}
        /\ promises[2] # <<>> /\ promises[2][1].ok
        /\ tokens_[empty].token = ""

====
